---- MODULE Spec2Model ----
(***************************************************************************)
(* Binance trading proxy (server.py): the order validator / risk gate, the *)
(* exchange client (_get, _post), the signer (_sign) and the four          *)
(* endpoints, as a state machine over a set of concurrently handled        *)
(* requests.                                                               *)
(*                                                                         *)
(* Numbers.  A Python float is modelled as a fixed-point integer:          *)
(*   quote_amount, price, MAX_QUOTE_TRADE_USDT : thousandths (0.001)       *)
(*   quantity                                  : units of 0.0000001        *)
(* so that the rounding done by the "{:.2f}" and "{:.6f}" formats is       *)
(* visible.  A formatted string is modelled by the number it denotes:      *)
(* "{:.2f}" yields a number of hundredths, "{:.6f}" a number of            *)
(* millionths.  The inputs never lie exactly half way between two          *)
(* representable results, so the binary tie-breaking of the format does    *)
(* not matter.  An Optional value is <<>> (None) or <<v>>.                 *)
(***************************************************************************)
EXTENDS Integers, Sequences, FiniteSets, TLC

VARIABLES
    MAX_QUOTE_TRADE_USDT, \* server.py:16, read once from the environment
    clock,                \* time.time() * 1000, in milliseconds
    req                   \* the requests being handled, one per slot

vars == <<MAX_QUOTE_TRADE_USDT, clock, req>>

----------------------------------------------------------------------------
(* Bounds of the model *)

MaxClock == 2      \* the clock advances at most this many milliseconds
NumSlots == 2      \* requests handled concurrently (SpecConc)

----------------------------------------------------------------------------
(* Configuration, server.py:12-16 *)

None == <<>>
Some(x) == <<x>>

ALLOWED_SYMBOLS == {"BTCUSDT", "ETHUSDT"}

\* sorted(ALLOWED_SYMBOLS), as it appears in the rejection message
SortedAllowed == <<"BTCUSDT", "ETHUSDT">>

\* The default maximum, 100, in thousandths.
DefaultMaxQuote == 100 * 1000

\* Values of the MAX_QUOTE_TRADE_USDT environment variable that are tried:
\* the default 100 and 99.999, which is not a whole number of cents.
MaxQuoteChoices == {DefaultMaxQuote, 99999}

----------------------------------------------------------------------------
(* Inputs *)

Symbols == {"btcusdt", "ETHUSDT", "dogeusdt"}

\* str.upper() on the symbols above
Upper(s) ==
    CASE s = "btcusdt"  -> "BTCUSDT"
      [] s = "dogeusdt" -> "DOGEUSDT"
      [] OTHER          -> s

Sides == {"BUY", "SELL"}
Types == {"MARKET", "LIMIT"}

\* quote_amount: absent, -5, 0, 50, 99.999, 100, 100.004
QuoteAmounts == {None, Some(-5000), Some(0), Some(50000), Some(99999),
                 Some(100000), Some(100004)}

\* quantity: absent, -1, 0, 0.0000004, 2
Quantities == {None, Some(-10000000), Some(0), Some(4), Some(20000000)}

\* price: absent, 0, 40, 60
Prices == {None, Some(0), Some(40000), Some(60000)}

\* confirmed: omitted, false, true
Confirmations == {None, Some(FALSE), Some(TRUE)}

\* JSON bodies of POST /order that pass the OrderIn field types
Bodies ==
    [symbol : Symbols, side : Sides, type : Types, quote_amount : QuoteAmounts,
     quantity : Quantities, price : Prices, confirmed : Confirmations]

\* The bodies used when several requests are handled concurrently.
ConcBodies ==
    {b \in Bodies :
        /\ b.symbol = "btcusdt" /\ b.side = "BUY" /\ b.type = "MARKET"
        /\ b.quote_amount = Some(50000)
        /\ b.quantity = None /\ b.price = None
        /\ b.confirmed \in {None, Some(TRUE)}}

\* Response bodies of the exchange
PriceText   == "{\"price\": \"42.50\"}"
AccountText == "{\"balances\": [{\"asset\": \"BTC\", \"free\": \"0.5\"}, {\"asset\": \"USDT\", \"free\": \"0.0\"}]}"
Texts == {"", "Internal Server Error", PriceText, AccountText}

StatusCodes == {200, 400, 500}

\* What comes back from one HTTP exchange: a response, or no response at all
\* (httpx raises on a timeout or a failed connection).
TransportError == [kind |-> "transport_error"]
HttpReplies == [kind : {"response"}, status_code : StatusCodes, text : Texts]
Replies == {TransportError} \cup HttpReplies

ConcReplies ==
    {TransportError}
    \cup {r \in HttpReplies :
            \/ r.status_code = 200 /\ r.text = PriceText
            \/ r.status_code = 500 /\ r.text = "Internal Server Error"}

----------------------------------------------------------------------------
(* Outcomes of a function or handler: a returned value, a raised           *)
(* HTTPException(status_code, detail), or any other exception.  A detail   *)
(* is the sequence of the pieces its message is built from.                *)

Return(v) == [kind |-> "return", value |-> v]
HTTPException(status_code, detail) ==
    [kind |-> "HTTPException", status_code |-> status_code, detail |-> detail]
Raise(exc) == [kind |-> "raise", exc |-> exc]

NoValue == [kind |-> "none"]

----------------------------------------------------------------------------
(* OrderIn, server.py:23-30 *)

\* Variant: confirmed defaults to true.
ConfirmedDefaultTrue == TRUE

\* The default of the confirmed field
ConfirmedDefault == FALSE

OrderIn(body) ==
    [body EXCEPT !.confirmed =
        IF body.confirmed = None THEN ConfirmedDefault ELSE body.confirmed[1]]

----------------------------------------------------------------------------
(* Pure helpers of create_order *)

\* Python truth value of an Optional[float]: None and 0.0 are false.
Truthy(x) == x # None /\ x[1] # 0

\* Nearest multiple of 10 below or at x + 5, divided by 10: the value shown
\* by a format that drops one decimal digit.
DropDigit(x) == (x + 5) \div 10

\* f"{x:.2f}" of a number of thousandths: a number of hundredths
Fmt2(x) == DropDigit(x)

\* f"{x:.6f}" of a number of 0.0000001 units: a number of millionths
Fmt6(x) == DropDigit(x)

\* Variant: the membership test without its negation.
SymbolAllowedInverted(symbol) == symbol \notin ALLOWED_SYMBOLS

\* symbol in ALLOWED_SYMBOLS
SymbolAllowed(symbol) == symbol \in ALLOWED_SYMBOLS

QuoteAmountMissing(o) == ~Truthy(o.quote_amount)

\* Variant: an amount equal to the maximum counts as exceeding it.
ExceedsLimitInclusive(quote_amount) == quote_amount >= MAX_QUOTE_TRADE_USDT

\* o.quote_amount > MAX_QUOTE_TRADE_USDT
ExceedsLimit(quote_amount) == quote_amount > MAX_QUOTE_TRADE_USDT

QuantityMissing(o) == ~Truthy(o.quantity)

LimitFieldsMissing(o) == ~(Truthy(o.quantity) /\ Truthy(o.price))

BaseParams(symbol, o) == [symbol |-> symbol, side |-> o.side, type |-> o.type]

\* Variant: a quantity given with a MARKET BUY is forwarded as well.
MarketBuyFieldsWithQuantity(o) ==
    IF o.quantity = None
    THEN [quoteOrderQty |-> Fmt2(o.quote_amount[1])]
    ELSE [quoteOrderQty |-> Fmt2(o.quote_amount[1]),
          quantity |-> Fmt6(o.quantity[1])]

MarketBuyFields(o) == [quoteOrderQty |-> Fmt2(o.quote_amount[1])]

MarketSellFields(o) == [quantity |-> Fmt6(o.quantity[1])]

LimitFields(o) ==
    [quantity |-> Fmt6(o.quantity[1]), price |-> Fmt2(o.price[1]),
     timeInForce |-> "GTC"]

MsgNotAllowed   == <<"Pair non autorisee. Autorisees: ", SortedAllowed>>
MsgNotConfirmed == <<"Confirmation manquante.">>
MsgQuoteAmount  == <<"Pour BUY MARKET, fournir quote_amount.">>
MsgLimit        == <<"Montant > limite ", MAX_QUOTE_TRADE_USDT, " USDT.">>
MsgQuantity     == <<"Pour SELL MARKET, fournir quantity.">>
MsgLimitFields  == <<"Pour LIMIT, fournir quantity et price.">>

\* create_order up to the call of _post (server.py:84-111): the exception
\* raised, or the params dict handed to _post.
OrderParams(o) ==
    LET symbol == Upper(o.symbol)
        params == BaseParams(symbol, o)
    IN  IF ~SymbolAllowed(symbol) THEN HTTPException(400, MsgNotAllowed)
        ELSE IF ~o.confirmed THEN HTTPException(400, MsgNotConfirmed)
        ELSE IF o.type = "MARKET" THEN
            IF o.side = "BUY" THEN
                IF QuoteAmountMissing(o) THEN HTTPException(400, MsgQuoteAmount)
                ELSE IF ExceedsLimit(o.quote_amount[1])
                     THEN HTTPException(400, MsgLimit)
                ELSE Return(MarketBuyFields(o) @@ params)
            ELSE
                IF QuantityMissing(o) THEN HTTPException(400, MsgQuantity)
                ELSE Return(MarketSellFields(o) @@ params)
        ELSE
            IF LimitFieldsMissing(o) THEN HTTPException(400, MsgLimitFields)
            ELSE Return(LimitFields(o) @@ params)

----------------------------------------------------------------------------
(* Request signer and exchange client, server.py:32-64 *)

\* Variant: the time in whole seconds, the factor 1000 forgotten.
NowInSeconds == clock \div 1000

\* int(time.time() * 1000)
Now == clock

\* hmac.new(BINANCE_SECRET, query_string, sha256).hexdigest(): a value that
\* depends on the secret and on the signed string, and on nothing else.
Hmac(query_string) == <<"HMAC-SHA256", "BINANCE_SECRET", query_string>>

\* _sign: the query string (the parameter mapping, in form encoding) with
\* its signature appended.
Sign(params) == [query_string |-> params, signature |-> Some(Hmac(params))]

\* urlencode(params) without a signature
Unsigned(params) == [query_string |-> params, signature |-> None]

\* The string sent by _get / _post for params: the timestamp is injected
\* into params first when the call is signed.
Encode(params, signed) ==
    IF signed THEN Sign([timestamp |-> Now] @@ params) ELSE Unsigned(params)

\* One HTTP request put on the wire.  params is the mapping as it was handed
\* to the client, data is what is sent.
WireCall(method, path, params, signed) ==
    [method |-> method, path |-> path, signed |-> signed, params |-> params,
     data |-> Encode(params, signed)]

\* Variant: the request is sent a second time.
SendTwice(calls, call) == Append(Append(calls, call), call)

\* client.get / client.post is awaited once per call of _get / _post.
Send(calls, call) == Append(calls, call)

\* r.json()
IsJson(text) == text \in {PriceText, AccountText}

Json(text) ==
    CASE text = PriceText   -> [price |-> "42.50"]
      [] text = AccountText ->
            [balances |-> <<[asset |-> "BTC", free |-> "0.5"],
                            [asset |-> "USDT", free |-> "0.0"]>>]

\* float() of the numeric strings above, in thousandths
Float(str) ==
    CASE str = "42.50" -> 42500
      [] str = "0.5"   -> 500
      [] str = "0.0"   -> 0

\* Variant: status 400 itself is not treated as an error.
IsErrorStatusAbove400(status_code) == status_code > 400

\* r.status_code >= 400
IsErrorStatus(status_code) == status_code >= 400

\* Variant: the failure is caught and reported as HTTPException(500).
UnreachableAsHttp500 == HTTPException(500, <<"Internal Server Error">>)

\* A timeout or a connection failure inside client.get / client.post: the
\* httpx exception is not caught anywhere and leaves the handler.
Unreachable == Raise("httpx.TransportError")

\* The outcome of _get once the exchange has answered with reply r.
GetResult(r) ==
    IF r.kind = "transport_error" THEN Unreachable
    ELSE IF IsErrorStatus(r.status_code)
         THEN HTTPException(r.status_code, <<r.text>>)
    ELSE IF IsJson(r.text) THEN Return(Json(r.text))
    ELSE Raise("JSONDecodeError")

\* The outcome of _post once the exchange has answered with reply r.
PostResult(r) ==
    IF r.kind = "transport_error" THEN Unreachable
    ELSE IF IsErrorStatus(r.status_code)
         THEN HTTPException(r.status_code, <<r.text>>)
    ELSE IF r.text = "" THEN Return([ok |-> TRUE])
    ELSE IF IsJson(r.text) THEN Return(Json(r.text))
    ELSE Raise("JSONDecodeError")

----------------------------------------------------------------------------
(* Endpoints, server.py:66-114.  A handler runs without interruption up to *)
(* its await of the exchange, and again from the exchange's answer to its  *)
(* end; other requests and the clock move in between.                      *)

Idle ==
    [pc |-> "idle", endpoint |-> "none", input |-> NoValue, calls |-> <<>>,
     reply |-> NoValue, result |-> NoValue, response |-> NoValue]

\* get_price after _get has returned data (server.py:74)
PriceResponse(symbol, data) ==
    IF "price" \in DOMAIN data
    THEN Return([symbol |-> symbol, price |-> Float(data.price)])
    ELSE Raise("KeyError")

\* get_balance after _get has returned data (server.py:79-80)
BalanceResponse(data) ==
    LET bs   == IF "balances" \in DOMAIN data THEN data.balances ELSE <<>>
        keep == {i \in DOMAIN bs : Float(bs[i].free) > 0}
        last(a) == CHOOSE i \in keep :
                       /\ bs[i].asset = a
                       /\ \A j \in keep : bs[j].asset = a => j <= i
    IN  Return([balances |->
                  [a \in {bs[i].asset : i \in keep} |-> Float(bs[last(a)].free)]])

\* create_order after _post has returned result (server.py:114)
OrderResponse(result) == Return([exchange_response |-> result])

\* What the handler of request q ends with, given the outcome of its single
\* client call: an exception of the client leaves the handler unchanged.
Finish(q, result) ==
    IF result.kind # "return" THEN result
    ELSE CASE q.endpoint = "price"   ->
                  PriceResponse(Upper(q.input.symbol), result.value)
           [] q.endpoint = "balance" -> BalanceResponse(result.value)
           [] q.endpoint = "order"   -> OrderResponse(result.value)

\* GET /ping
Ping(s) ==
    /\ req[s].pc = "idle"
    /\ req' = [req EXCEPT ![s] =
            [@ EXCEPT !.pc = "done", !.endpoint = "ping",
                      !.response = Return([status |-> "ok"])]]
    /\ UNCHANGED <<MAX_QUOTE_TRADE_USDT, clock>>

\* GET /price/{symbol}, up to the await in _get
GetPrice(s, symbols) ==
    /\ req[s].pc = "idle"
    /\ \E symbol \in symbols :
         req' = [req EXCEPT ![s] =
            [@ EXCEPT !.pc = "awaiting", !.endpoint = "price",
                      !.input = [symbol |-> symbol],
                      !.calls = Send(@, WireCall("GET", "/api/v3/ticker/price",
                                         [symbol |-> Upper(symbol)], FALSE))]]
    /\ UNCHANGED <<MAX_QUOTE_TRADE_USDT, clock>>

\* GET /balance, up to the await in _get
GetBalance(s) ==
    /\ req[s].pc = "idle"
    /\ req' = [req EXCEPT ![s] =
            [@ EXCEPT !.pc = "awaiting", !.endpoint = "balance",
                      !.calls = Send(@, WireCall("GET", "/api/v3/account",
                                         <<>>, TRUE))]]
    /\ UNCHANGED <<MAX_QUOTE_TRADE_USDT, clock>>

\* POST /order: rejected by a check, or up to the await in _post
CreateOrder(s, bodies) ==
    /\ req[s].pc = "idle"
    /\ \E body \in bodies :
       LET checked == OrderParams(OrderIn(body))
       IN  req' = [req EXCEPT ![s] =
             IF checked.kind = "return"
             THEN [@ EXCEPT !.pc = "awaiting", !.endpoint = "order",
                            !.input = body,
                            !.calls = Send(@, WireCall("POST", "/api/v3/order",
                                               checked.value, TRUE))]
             ELSE [@ EXCEPT !.pc = "done", !.endpoint = "order",
                            !.input = body, !.response = checked]]
    /\ UNCHANGED <<MAX_QUOTE_TRADE_USDT, clock>>

\* The exchange answers the call of request s with one of replies, or the
\* call fails;
\* the handler runs to its end.
Respond(s, replies) ==
    /\ req[s].pc = "awaiting"
    /\ \E r \in replies :
       LET call   == req[s].calls[Len(req[s].calls)]
           result == IF call.method = "GET" THEN GetResult(r) ELSE PostResult(r)
       IN  req' = [req EXCEPT ![s] =
             [@ EXCEPT !.pc = "done", !.reply = r, !.result = result,
                       !.response = Finish(req[s], result)]]
    /\ UNCHANGED <<MAX_QUOTE_TRADE_USDT, clock>>

\* A millisecond passes.
Tick ==
    /\ clock < MaxClock
    /\ clock' = clock + 1
    /\ UNCHANGED <<MAX_QUOTE_TRADE_USDT, req>>

Slots == DOMAIN req

\* One request at a time, every input.
Init ==
    /\ MAX_QUOTE_TRADE_USDT \in MaxQuoteChoices
    /\ clock = 0
    /\ req = [s \in {1} |-> Idle]

Next ==
    \/ \E s \in Slots : Ping(s)
    \/ \E s \in Slots : GetPrice(s, Symbols)
    \/ \E s \in Slots : GetBalance(s)
    \/ \E s \in Slots : CreateOrder(s, Bodies)
    \/ \E s \in Slots : Respond(s, Replies)
    \/ Tick

Spec == Init /\ [][Next]_vars

\* Several requests handled concurrently, under the default configuration.
InitConc ==
    /\ MAX_QUOTE_TRADE_USDT = DefaultMaxQuote
    /\ clock = 0
    /\ req = [s \in 1..NumSlots |-> Idle]

NextConc ==
    \/ \E s \in Slots : Ping(s)
    \/ \E s \in Slots : GetPrice(s, {"btcusdt"})
    \/ \E s \in Slots : GetBalance(s)
    \/ \E s \in Slots : CreateOrder(s, ConcBodies)
    \/ \E s \in Slots : Respond(s, ConcReplies)
    \/ Tick

SpecConc == InitConc /\ [][NextConc]_vars

----------------------------------------------------------------------------
(* Vocabulary of the properties *)

IsOrder(s)   == req[s].endpoint = "order"
IsDone(s)    == req[s].pc = "done"
Order(s)     == OrderIn(req[s].input)
NoCalls(s)   == req[s].calls = <<>>
Forwarded(s) == IsOrder(s) /\ req[s].calls # <<>>
Call(s)      == req[s].calls[1]

\* The request ended with HTTP 400 raised by the handler's own checks.
Rejected400(s) ==
    /\ IsDone(s)
    /\ req[s].response.kind = "HTTPException"
    /\ req[s].response.status_code = 400
    /\ req[s].reply = NoValue

AllowedOrder(s) == IsOrder(s) /\ Upper(req[s].input.symbol) \in ALLOWED_SYMBOLS
ConfirmedOrder(s) == IsOrder(s) /\ req[s].input.confirmed = Some(TRUE)
IsShape(s, type, side) ==
    IsOrder(s) /\ req[s].input.type = type /\ req[s].input.side = side

----------------------------------------------------------------------------
\* C1: an order whose upper-cased symbol is not in the allowed set ends with
\* HTTP 400 and no exchange call, whatever its other fields are.
C1_DisallowedSymbolRejected ==
    \A s \in Slots :
        (IsOrder(s) /\ Upper(req[s].input.symbol) \notin ALLOWED_SYMBOLS)
            => Rejected400(s) /\ NoCalls(s)

\* C1 witness: a confirmed, well-formed MARKET BUY of 50 for DOGEUSDT has
\* been rejected.
C1_Witness ==
    \E s \in Slots :
        /\ IsShape(s, "MARKET", "BUY")
        /\ req[s].input.symbol = "dogeusdt"
        /\ req[s].input.confirmed = Some(TRUE)
        /\ req[s].input.quote_amount = Some(50000)
        /\ Rejected400(s)
        /\ req[s].response.detail = MsgNotAllowed

\* C2: an order with confirmed false or omitted ends with HTTP 400 and no
\* exchange call, and every order that reached the exchange had confirmed
\* true.
C2_UnconfirmedRejected ==
    \A s \in Slots :
        /\ (IsOrder(s) /\ req[s].input.confirmed \in {None, Some(FALSE)})
               => Rejected400(s) /\ NoCalls(s)
        /\ Forwarded(s) => req[s].input.confirmed = Some(TRUE)

\* C2 witness: an otherwise valid MARKET BUY of 50 for BTCUSDT that omits
\* confirmed has been rejected for the missing confirmation.
C2_Witness ==
    \E s \in Slots :
        /\ IsShape(s, "MARKET", "BUY")
        /\ req[s].input.symbol = "btcusdt"
        /\ req[s].input.confirmed = None
        /\ req[s].input.quote_amount = Some(50000)
        /\ Rejected400(s)
        /\ req[s].response.detail = MsgNotConfirmed

\* The two checks of C3 on the request's quote_amount.
C3_Gate(s) ==
    (AllowedOrder(s) /\ ConfirmedOrder(s) /\ IsShape(s, "MARKET", "BUY")
        /\ req[s].input.quote_amount # None)
    => /\ req[s].input.quote_amount[1] > MAX_QUOTE_TRADE_USDT
            => Rejected400(s) /\ NoCalls(s)
       /\ req[s].input.quote_amount[1] = MAX_QUOTE_TRADE_USDT
            => Len(req[s].calls) = 1

C4_MarketAmountPositive ==
    \A s \in Slots :
        LET amount == IF req[s].input.side = "BUY"
                      THEN req[s].input.quote_amount ELSE req[s].input.quantity
            msg    == IF req[s].input.side = "BUY"
                      THEN MsgQuoteAmount ELSE MsgQuantity
        IN  (IsOrder(s) /\ req[s].input.type = "MARKET")
            => /\ Forwarded(s) => (amount # None /\ amount[1] > 0)
               /\ (AllowedOrder(s) /\ ConfirmedOrder(s)
                     /\ (amount = None \/ amount[1] <= 0))
                    => /\ Rejected400(s) /\ NoCalls(s)
                       /\ req[s].response.detail = msg

----------------------------------------------------------------------------
C6_StatusDecidesOutcome ==
    \A s \in Slots :
        (IsDone(s) /\ req[s].reply # NoValue /\ req[s].reply.kind = "response")
        => LET r == req[s].reply
           IN  /\ r.status_code >= 400
                    => req[s].result = HTTPException(r.status_code, <<r.text>>)
               /\ r.status_code < 400 => req[s].result.kind = "return"

\* C6 amended: status >= 400 ends in an HTTPException with the exchange's
\* status and body; status < 400 returns the parsed payload when the body is
\* JSON, returns the acknowledgment {"ok": true} on a POST with an empty
\* body, and otherwise raises the JSON parser's error.
C6_StatusAndBodyDecideOutcome ==
    \A s \in Slots :
        (IsDone(s) /\ req[s].reply # NoValue /\ req[s].reply.kind = "response")
        => LET r == req[s].reply
           IN  /\ r.status_code >= 400
                    => req[s].result = HTTPException(r.status_code, <<r.text>>)
               /\ r.status_code < 400 =>
                    IF r.text \in {PriceText, AccountText}
                    THEN req[s].result = Return(Json(r.text))
                    ELSE IF r.text = "" /\ Call(s).method = "POST"
                    THEN req[s].result = Return([ok |-> TRUE])
                    ELSE req[s].result = Raise("JSONDecodeError")

\* C6 witness: a call has been answered with status 400 and the body
\* "Internal Server Error", and ended in an HTTPException carrying both.
C6_Witness ==
    \E s \in Slots :
        /\ IsDone(s) /\ req[s].reply # NoValue
        /\ req[s].reply.kind = "response"
        /\ req[s].reply.status_code = 400
        /\ req[s].reply.text = "Internal Server Error"
        /\ req[s].result = HTTPException(400, <<"Internal Server Error">>)

\* The request ended because its exchange call timed out or could not
\* connect.
EndedUnreachable(s) == IsDone(s) /\ req[s].reply = TransportError

\* The request ended because the exchange answered with status >= 400.
EndedUpstreamRejected(s) ==
    /\ IsDone(s) /\ req[s].reply # NoValue
    /\ req[s].reply.kind = "response" /\ req[s].reply.status_code >= 400

\* C7: a request whose exchange call timed out or failed to connect ends in
\* the unreachable outcome, and that response differs from the response of
\* every request rejected by the exchange and of every request rejected by
\* validation.
C7_UnreachableDistinct ==
    \A s \in Slots :
        EndedUnreachable(s) =>
            /\ req[s].response = Raise("httpx.TransportError")
            /\ \A t \in Slots :
                   (EndedUpstreamRejected(t) \/ Rejected400(t))
                       => req[s].response # req[t].response

\* C7 witness: one request has ended unreachable while another has been
\* rejected by the exchange with status 500.
C7_Witness ==
    \E s, t \in Slots :
        /\ EndedUnreachable(s)
        /\ EndedUpstreamRejected(t)
        /\ req[t].reply.status_code = 500

\* The signed calls issued so far, as <<slot, index>> pairs
SignedCalls ==
    {c \in Slots \X {1} : req[c[1]].calls # <<>> /\ req[c[1]].calls[1].signed}

Timestamp(c) == req[c[1]].calls[c[2]].data.query_string.timestamp

\* C8 as stated: no two signed calls carry the same timestamp.
C8_TimestampsUnique ==
    \A c, d \in SignedCalls : c # d => Timestamp(c) # Timestamp(d)

\* C8 amended: the timestamp of a signed call is the clock reading at the
\* step that signs it, and is never changed afterwards; two signed calls
\* carry different timestamps whenever the clock read differently at their
\* signings.
C8_TimestampIsClockAtSigning ==
    [][\A s \in Slots :
          /\ (req[s].calls = <<>> /\ req'[s].calls # <<>> /\ req'[s].calls[1].signed)
                => req'[s].calls[1].data.query_string.timestamp = clock
          /\ req[s].calls # <<>> => req'[s].calls = req[s].calls]_vars

\* C8 witness: two signed calls have been issued at different clock readings
\* and carry different timestamps.
C8_Witness ==
    \E c, d \in SignedCalls :
        /\ Timestamp(c) = 0 /\ Timestamp(d) = 1
        /\ req[d[1]].endpoint = "order" /\ req[c[1]].endpoint = "order"

\* The keys of the params handed to _post for each (type, side) shape
ShapeKeys(type, side) ==
    IF type = "LIMIT"
    THEN {"symbol", "side", "type", "quantity", "price", "timeInForce"}
    ELSE IF side = "BUY" THEN {"symbol", "side", "type", "quoteOrderQty"}
    ELSE {"symbol", "side", "type", "quantity"}

\* C9: the params handed to the exchange client for a validated order have
\* exactly the keys of its (type, side) shape, with timeInForce GTC on every
\* LIMIT order, and carry the request's side and type and its symbol in upper
\* case.
C9_ExactShapeKeys ==
    \A s \in Slots :
        Forwarded(s) =>
            LET params == Call(s).params
                body   == req[s].input
            IN  /\ DOMAIN params = ShapeKeys(body.type, body.side)
                /\ body.type = "LIMIT" => params.timeInForce = "GTC"
                /\ params.side = body.side /\ params.type = body.type
                /\ params.symbol \in {"BTCUSDT", "ETHUSDT"}
                /\ body.symbol = "btcusdt" => params.symbol = "BTCUSDT"
                /\ DOMAIN Call(s).data.query_string
                       = ShapeKeys(body.type, body.side) \cup {"timestamp"}

\* C9 witness: a MARKET BUY sent in lower case with a quantity and a price
\* it does not need has been forwarded.
C9_Witness ==
    \E s \in Slots :
        /\ Forwarded(s) /\ IsShape(s, "MARKET", "BUY")
        /\ req[s].input.symbol = "btcusdt"
        /\ req[s].input.quantity = Some(20000000)
        /\ req[s].input.price = Some(60000)

\* quantity * price > max, for a quantity in units of 0.0000001 and a price
\* and a maximum in thousandths, price >= 0; computed in two halves to stay
\* within 32 bits.
NotionalExceeds(quantity, price, max) ==
    LET hi   == (quantity \div 10000) * price
        lo   == (quantity % 10000) * price
        whole == hi + (lo \div 10000)
    IN  \/ whole > max * 1000
        \/ whole = max * 1000 /\ lo % 10000 > 0

\* C10: no order has reached the exchange whose quote-currency size exceeds
\* the maximum: quote_amount for a MARKET BUY, quantity times price for a
\* LIMIT order.
C10_NotionalWithinMax ==
    \A s \in Slots :
        Forwarded(s) =>
            /\ IsShape(s, "MARKET", "BUY")
                  => req[s].input.quote_amount[1] <= MAX_QUOTE_TRADE_USDT
            /\ req[s].input.type = "LIMIT"
                  => ~NotionalExceeds(req[s].input.quantity[1],
                                      req[s].input.price[1],
                                      MAX_QUOTE_TRADE_USDT)

====
